---- MODULE Spec2Model ----
(***************************************************************************)
(* Model of src/mani.py: the BESS ROI estimator (time-of-use arbitrage     *)
(* plus peak shaving).  One run of the script is one behaviour: the        *)
(* widgets are read, the load curve is loaded, the threshold is chosen,    *)
(* the 24-hour dispatch loop runs, and the financial figures are computed. *)
(*                                                                         *)
(* Numbers.  The script computes in binary floating point.  The model      *)
(* computes the same expressions exactly, in fixed point: a power or an    *)
(* energy is an integer number of millionths of a kW / kWh (Micro), a      *)
(* percentage slider is its integer percent, a price is an integer number  *)
(* of tenths of a currency unit.  ArithmeticExact states that no value of  *)
(* a run is rounded by this representation.  Money amounts exceed 32-bit   *)
(* integers and are kept as two-limb integers <<hi, lo>> = hi * Limb + lo. *)
(***************************************************************************)
EXTENDS Integers, Sequences, FiniteSets, TLC

\* ------------------------------------------------------------------ units
Micro == 1000 * 1000
Limb == 100 * 1000

kW(x) == x * Micro

\* ------------------------------------------------- program constants
Hours == 24
FallbackLoad == 50
FloorLoad == 20
OperatingDays == 330
MonthsPerYear == 12
PaybackSentinel == 99
ValleyEnd == 8
PeakOneStart == 12
PeakOneEnd == 14
PeakTwoStart == 18
PeakTwoEnd == 22

\* ------------------------------------------------------------ bounds
\* An uploaded CSV has 0 rows, or between Hours - RowSlack and
\* Hours + RowSlack rows.
RowSlack == 1

\* ------------------------------------------------------ arithmetic
Min2(a, b) == IF a <= b THEN a ELSE b
Max2(a, b) == IF a >= b THEN a ELSE b
Min3(a, b, c) == Min2(a, Min2(b, c))
Max3(a, b, c) == Max2(a, Max2(b, c))

RECURSIVE SeqMax(_)
SeqMax(s) ==
  IF Len(s) = 1 THEN s[1] ELSE Max2(s[1], SeqMax(Tail(s)))

\* x * pct / 100, rounded down (exact whenever 100 divides x * pct).
TimesPct(x, pct) == (x \div 100) * pct + ((x % 100) * pct) \div 100

PctExact(x, pct) == ((x % 100) * pct) % 100 = 0

\* Two-limb integers.
WOf(x) == <<x \div Limb, x % Limb>>
WTimes(w, k) ==
  LET p == w[2] * k IN <<w[1] * k + p \div Limb, p % Limb>>
WPlus(a, b) ==
  LET s == a[2] + b[2] IN <<a[1] + b[1] + s \div Limb, s % Limb>>
WPositive(w) == w[1] > 0 \/ (w[1] = 0 /\ w[2] > 0)
WZero == <<0, 0>>

RECURSIVE WSum(_)
WSum(s) == IF s = <<>> THEN WZero ELSE WPlus(s[1], WSum(Tail(s)))

\* ------------------------------------------------------------ state
VARIABLES
  batt_capacity, batt_power, eff, dod, system_cost_per_kwh, capex,
  price_peak, price_flat, price_valley, demand_price,
  uploaded_file, load_curve, data_warning, original_max_demand,
  threshold, sim_data, soc, usable_cap, batt_actions, i,
  new_max_demand, demand_reduction, annual_demand_savings,
  annual_elec_savings, total_annual_savings, payback,
  soc_log, pc, error

widgets ==
  <<batt_capacity, batt_power, eff, dod, system_cost_per_kwh, capex,
    price_peak, price_flat, price_valley, demand_price, uploaded_file>>
loaded == <<load_curve, data_warning, original_max_demand>>
engine == <<soc, usable_cap, batt_actions, i, soc_log>>
finance ==
  <<new_max_demand, demand_reduction, annual_demand_savings,
    annual_elec_savings, total_annual_savings, payback>>
vars == <<widgets, loaded, threshold, sim_data, engine, finance, pc, error>>

\* --------------------------------------------------- widget values
\* number_input accepts any number (no min_value); the sliders yield an
\* integer percent in 80..100.
BatteryChoices ==
  { [cap |-> kW(200),  power |-> kW(100),  eff |-> 90,  dod |-> 90],
    [cap |-> kW(100),  power |-> kW(1000), eff |-> 90,  dod |-> 100],
    [cap |-> kW(100),  power |-> kW(50),   eff |-> 100, dod |-> 100],
    [cap |-> kW(500),  power |-> kW(50),   eff |-> 100, dod |-> 100],
    [cap |-> kW(200),  power |-> kW(100),  eff |-> 80,  dod |-> 100],
    [cap |-> kW(-100), power |-> kW(100),  eff |-> 100, dod |-> 100],
    [cap |-> kW(0),    power |-> kW(100),  eff |-> 90,  dod |-> 90],
    [cap |-> kW(200),  power |-> kW(0),    eff |-> 90,  dod |-> 90],
    [cap |-> kW(200),  power |-> kW(-50),  eff |-> 90,  dod |-> 90] }

TariffChoices ==
  { [peak |-> 12, flat |-> 7, valley |-> 3],
    [peak |-> 3,  flat |-> 7, valley |-> 12],
    [peak |-> 7,  flat |-> 7, valley |-> 3],
    [peak |-> 12, flat |-> 3, valley |-> 3],
    [peak |-> 3,  flat |-> 3, valley |-> 3] }

TariffDistinct(t) ==
  t.peak # t.flat /\ t.flat # t.valley /\ t.peak # t.valley

\* With two equal prices the battery may charge in up to 24 hours; the
\* fixed-point resolution then represents the run only without charging
\* loss.
Settings ==
  { s \in BatteryChoices \X TariffChoices :
      TariffDistinct(s[2]) \/ s[1].eff = 100 }

SystemCostChoices == {12000}
DemandPriceChoices == {400}

\* Uploaded series: a base load with a spike in some hours; rows past the
\* 24th carry a larger value.
Shapes ==
  { [base |-> 50, spike |-> 50,  at |-> {}],
    [base |-> 50, spike |-> 150, at |-> {15}],
    [base |-> 50, spike |-> 150, at |-> {3}],
    [base |-> 50, spike |-> 120, at |-> {12, 19}],
    [base |-> 20, spike |-> 300, at |-> {9, 10, 11}],
    [base |-> 50, spike |-> 80,  at |-> {5, 15, 20}] }

Row(shape, k) ==
  IF k > Hours THEN kW(400)
  ELSE IF (k - 1) \in shape.at THEN kW(shape.spike) ELSE kW(shape.base)

RowCounts == {0} \cup ((Hours - RowSlack) .. (Hours + RowSlack))

UploadChoices ==
  { [kind |-> "none", rows |-> <<>>],
    [kind |-> "malformed", rows |-> <<>>] }
  \cup { [kind |-> "csv", rows |-> [k \in 1..n |-> Row(sh, k)]] :
           sh \in Shapes, n \in RowCounts }

ThresholdChoices == {kW(0), kW(40), kW(60), kW(100)}

NoPayback == [div |-> FALSE, num |-> WZero, den |-> WZero]
NoSimData ==
  [Hour |-> <<>>, Load |-> <<>>, Threshold |-> <<>>, Price |-> <<>>,
   Battery_kW |-> <<>>, Grid_kW |-> <<>>, Elec_Cost_Savings |-> <<>>]

Capex(capacity, unit_cost) == WTimes(WOf(capacity), unit_cost)

Init ==
  /\ \E s \in Settings :
       /\ batt_capacity = s[1].cap
       /\ batt_power = s[1].power
       /\ eff = s[1].eff
       /\ dod = s[1].dod
       /\ price_peak = s[2].peak
       /\ price_flat = s[2].flat
       /\ price_valley = s[2].valley
  /\ system_cost_per_kwh \in SystemCostChoices
  /\ capex = Capex(batt_capacity, system_cost_per_kwh)
  /\ demand_price \in DemandPriceChoices
  /\ uploaded_file \in UploadChoices
  /\ load_curve = <<>>
  /\ data_warning = FALSE
  /\ original_max_demand = 0
  /\ threshold = 0
  /\ sim_data = NoSimData
  /\ soc = 0
  /\ usable_cap = 0
  /\ batt_actions = <<>>
  /\ i = 0
  /\ soc_log = <<>>
  /\ new_max_demand = 0
  /\ demand_reduction = 0
  /\ annual_demand_savings = WZero
  /\ annual_elec_savings = WZero
  /\ total_annual_savings = WZero
  /\ payback = NoPayback
  /\ pc = "load_data"
  /\ error = "none"

\* ------------------------------------------------------ load provider
\* base_load + 50 sin^2((h - 8) / 3) + 150 exp(-(h - 15)^2 / 4), hours
\* 0..23, to the millionth of a kW.
SyntheticRaw ==
  << 110454913, 126142660, 141341091, 149541850,
     147233164, 135403671, 119119061, 105352835,
     100000718, 105371330, 119408629, 138151017,
     163043048, 204723766, 258161208, 276142660,
     227275030, 156177659, 117625691, 115311280,
     128927069, 143171909, 149896264, 145976805 >>

SyntheticCurve == [k \in 1..Hours |-> Max2(SyntheticRaw[k], kW(FloorLoad))]

FallbackCurve == [k \in 1..Hours |-> kW(FallbackLoad)]

\* df.iloc[:, 1].values[:24]: at most the first 24 rows, never more rows
\* than the file has.
FirstRows(rows) == SubSeq(rows, 1, Min2(Hours, Len(rows)))

LoadCurveOf(file) ==
  IF file.kind = "csv" THEN FirstRows(file.rows)
  ELSE IF file.kind = "malformed" THEN FallbackCurve
  ELSE SyntheticCurve

\* Lines 46-65.  np.max of an empty array raises ValueError.
LoadData ==
  /\ pc = "load_data"
  /\ load_curve' = LoadCurveOf(uploaded_file)
  /\ data_warning' = (uploaded_file.kind = "malformed")
  /\ IF Len(load_curve') = 0
       THEN /\ original_max_demand' = original_max_demand
            /\ pc' = "failed"
            /\ error' = "ValueError"
       ELSE /\ original_max_demand' = SeqMax(load_curve')
            /\ pc' = "set_threshold"
            /\ error' = error
  /\ UNCHANGED <<widgets, threshold, sim_data, engine, finance>>

\* Lines 68-78.  The slider yields any value in [0, original_max_demand];
\* its initial value is default_threshold.
DefaultThreshold(max_demand, power) ==
  Max2(0, max_demand - TimesPct(power, 80))

SliderValues(max_demand, power) ==
  { t \in ThresholdChoices
           \cup {DefaultThreshold(max_demand, power), max_demand} :
      0 <= t /\ t <= max_demand }

SetThreshold ==
  /\ pc = "set_threshold"
  /\ threshold' \in SliderValues(original_max_demand, batt_power)
  /\ pc' = "init_sim"
  /\ UNCHANGED <<widgets, loaded, sim_data, engine, finance, error>>

\* ------------------------------------------------------ price schedule
get_price(h) ==
  IF 0 <= h /\ h < ValleyEnd THEN price_valley
  ELSE IF (PeakOneStart <= h /\ h < PeakOneEnd)
          \/ (PeakTwoStart <= h /\ h < PeakTwoEnd) THEN price_peak
  ELSE price_flat

\* Lines 83-99.  Assigning a column whose length differs from the 24-row
\* index raises ValueError.
UsableCap(capacity, dod_pct) == TimesPct(capacity, dod_pct)

InitSim ==
  /\ pc = "init_sim"
  /\ IF Len(load_curve) # Hours
       THEN /\ pc' = "failed"
            /\ error' = "ValueError"
            /\ UNCHANGED <<sim_data, engine>>
       ELSE /\ sim_data' =
                 [NoSimData EXCEPT
                    !.Hour = [k \in 1..Hours |-> k - 1],
                    !.Load = load_curve,
                    !.Threshold = [k \in 1..Hours |-> threshold],
                    !.Price = [k \in 1..Hours |-> get_price(k - 1)]]
            /\ soc' = 0
            /\ usable_cap' = UsableCap(batt_capacity, dod)
            /\ batt_actions' = <<>>
            /\ soc_log' = <<>>
            /\ i' = 0
            /\ pc' = "dispatch"
            /\ error' = error
  /\ UNCHANGED <<widgets, loaded, threshold, finance>>

\* ----------------------------------------------------- dispatch engine
ShaveIgnoresSoc(load, thr, power, charge) == Min2(load - thr, power)

\* Line 116.
ShaveAmount(load, thr, power, charge) == Min3(load - thr, power, charge)

ChargeUnclamped(power, usable, charge) == power

\* Line 129.
ChargeAmount(power, usable, charge) == Min2(power, usable - charge)

StoredWithoutLoss(amount, eff_pct) == amount

\* Line 131: max_charge * eff.
StoredEnergy(amount, eff_pct) == TimesPct(amount, eff_pct)

DischargeUnclamped(power, charge) == power

\* Line 138.
DischargeAmount(power, charge) == Min2(power, charge)

\* Lines 106-143: the battery power of the hour and the soc after it.
HourStep(load, price, charge) ==
  IF load > threshold
    THEN LET actual_shave ==
               ShaveAmount(load, threshold, batt_power, charge)
         IN [power |-> actual_shave, soc |-> charge - actual_shave]
  ELSE IF price = price_valley
    THEN LET max_charge == ChargeAmount(batt_power, usable_cap, charge)
         IN [power |-> -max_charge,
             soc |-> charge + StoredEnergy(max_charge, eff)]
  ELSE IF price = price_peak
    THEN LET max_discharge == DischargeAmount(batt_power, charge)
         IN [power |-> max_discharge, soc |-> charge - max_discharge]
  ELSE [power |-> 0, soc |-> charge]

\* Lines 101-145, one iteration.  soc_log records the soc after each hour.
DispatchHour ==
  /\ pc = "dispatch"
  /\ i < Hours
  /\ LET step == HourStep(sim_data.Load[i + 1], sim_data.Price[i + 1], soc)
     IN /\ soc' = step.soc
        /\ batt_actions' = Append(batt_actions, step.power)
        /\ soc_log' = Append(soc_log, step.soc)
  /\ i' = i + 1
  /\ pc' = IF i + 1 = Hours THEN "finance" ELSE "dispatch"
  /\ UNCHANGED <<widgets, loaded, threshold, sim_data, usable_cap,
                 finance, error>>

\* -------------------------------------------------- financial evaluator
\* Line 149.
GridDraw(load, power) == load - power

PaybackDividesByZero(cost, savings) ==
  IF savings[1] >= 0
    THEN [div |-> TRUE, num |-> cost, den |-> savings]
    ELSE [div |-> FALSE, num |-> WOf(PaybackSentinel), den |-> WOf(1)]

\* Line 170.  div says whether a division was performed; num / den is the
\* value.
Payback(cost, savings) ==
  IF WPositive(savings)
    THEN [div |-> TRUE, num |-> cost, den |-> savings]
    ELSE [div |-> FALSE, num |-> WOf(PaybackSentinel), den |-> WOf(1)]

\* Lines 147-170.
Finance ==
  /\ pc = "finance"
  /\ LET grid == [k \in 1..Hours |->
                    GridDraw(sim_data.Load[k], batt_actions[k])]
         savings == [k \in 1..Hours |->
                       WTimes(WOf(batt_actions[k]), sim_data.Price[k])]
         monthly_demand_savings ==
           WTimes(WOf(original_max_demand - SeqMax(grid)), demand_price)
         daily_elec_savings == WSum(savings)
     IN /\ sim_data' = [sim_data EXCEPT !.Battery_kW = batt_actions,
                                        !.Grid_kW = grid,
                                        !.Elec_Cost_Savings = savings]
        /\ new_max_demand' = SeqMax(grid)
        /\ demand_reduction' = original_max_demand - SeqMax(grid)
        /\ annual_demand_savings' =
             WTimes(monthly_demand_savings, MonthsPerYear)
        /\ annual_elec_savings' = WTimes(daily_elec_savings, OperatingDays)
  /\ total_annual_savings' =
       WPlus(annual_demand_savings', annual_elec_savings')
  /\ payback' = Payback(capex, total_annual_savings')
  /\ pc' = "done"
  /\ UNCHANGED <<widgets, loaded, threshold, engine, error>>

Next == LoadData \/ SetThreshold \/ InitSim \/ DispatchHour \/ Finance

Spec == Init /\ [][Next]_vars

\* The configuration is one the data model allows.
ValidConfig ==
  /\ batt_capacity > 0
  /\ batt_power > 0
  /\ 0 < eff /\ eff <= 100
  /\ 0 < dod /\ dod <= 100

\* The fixed-point representation rounds nothing: every scaling by a
\* percentage that the run performs is exact.
ArithmeticExact ==
  /\ pc = "set_threshold" => PctExact(batt_power, 80)
  /\ pc = "init_sim" => PctExact(batt_capacity, dod)
  /\ (pc = "dispatch" /\ i < Hours
        /\ sim_data.Load[i + 1] <= threshold
        /\ sim_data.Price[i + 1] = price_valley)
       => PctExact(ChargeAmount(batt_power, usable_cap, soc), eff)

\* ------------------------------------------------------------ traces
Running == pc \in {"dispatch", "finance", "done"}

\* The soc at the start of hour k - 1 (row k of the table).
SocBefore(k) == IF k = 1 THEN 0 ELSE soc_log[k - 1]

\* The tier of an hour by the hour windows of the price schedule.
TierOf(h) ==
  IF 0 <= h /\ h < ValleyEnd THEN "valley"
  ELSE IF (PeakOneStart <= h /\ h < PeakOneEnd)
          \/ (PeakTwoStart <= h /\ h < PeakTwoEnd) THEN "peak"
  ELSE "flat"

RECURSIVE Charged(_)
Charged(n) ==
  IF n = 0 THEN 0 ELSE Charged(n - 1) + Max2(-batt_actions[n], 0)

RECURSIVE Discharged(_)
Discharged(n) ==
  IF n = 0 THEN 0 ELSE Discharged(n - 1) + Max2(batt_actions[n], 0)

NoShaving == \A k \in 1..Hours : sim_data.Load[k] <= threshold

\* ------------------------------------------------------------ C1
\* C1: for every valid configuration, load curve and threshold, the soc
\* starts at 0 and after each hourly dispatch step lies between 0 and the
\* usable capacity, capacity x DOD.
SocWithinUsable ==
  (ValidConfig /\ Running) =>
    /\ usable_cap = TimesPct(batt_capacity, dod)
    /\ Len(soc_log) = i
    /\ i = 0 => soc = 0
    /\ i > 0 => soc = soc_log[i]
    /\ 0 <= soc /\ soc <= usable_cap
    /\ \A k \in 1..i : 0 <= soc_log[k] /\ soc_log[k] <= usable_cap

\* A finished run whose rated power is at least ten times the usable
\* capacity, with a charge cut short by the headroom and a discharge cut
\* short by the stored energy.
ClampedRun ==
  /\ ValidConfig /\ pc = "done"
  /\ batt_power >= 10 * usable_cap
  /\ \E k \in 1..Hours :
       batt_actions[k] < 0 /\ -batt_actions[k] < batt_power
  /\ \E k \in 1..Hours :
       /\ batt_actions[k] > 0 /\ batt_actions[k] < batt_power
       /\ soc_log[k] = 0

\* ------------------------------------------------------------ C7
\* C7: in every hour with load > threshold, whatever the tier, the battery
\* power is min(load - threshold, rated power, soc), which is >= 0 for a
\* valid configuration, and soc drops by exactly that amount; the grid
\* draw of the hour is max(threshold, load - rated power, load - soc), at
\* least the threshold, and at most the threshold when soc and rated power
\* each cover load - threshold.
ShavingHour ==
  Running =>
    \A k \in 1..i :
      sim_data.Load[k] > threshold =>
        LET load == sim_data.Load[k]
            before == SocBefore(k)
        IN /\ batt_actions[k] = Min3(load - threshold, batt_power, before)
           /\ soc_log[k] = before - batt_actions[k]
           /\ ValidConfig => batt_actions[k] >= 0
           /\ pc = "done" =>
                /\ sim_data.Grid_kW[k]
                     = Max3(threshold, load - batt_power, load - before)
                /\ sim_data.Grid_kW[k] >= threshold
                /\ (before >= load - threshold
                      /\ batt_power >= load - threshold)
                     => sim_data.Grid_kW[k] <= threshold

\* A finished run with an hour shaved exactly to the threshold in a valley
\* hour and an hour left above it.
ShavedRun ==
  /\ ValidConfig /\ pc = "done"
  /\ \E k \in 1..ValleyEnd :
       /\ sim_data.Load[k] > threshold
       /\ batt_actions[k] > 0
       /\ sim_data.Grid_kW[k] = threshold
  /\ \E k \in 1..Hours :
       /\ sim_data.Load[k] > threshold
       /\ sim_data.Grid_kW[k] > threshold

\* ------------------------------------------------------------ C10
\* C10: for a valid configuration, after every hourly step the soc equals
\* efficiency x (energy charged so far) - (energy discharged so far, by
\* shaving and by arbitrage); so the energy discharged never exceeds
\* efficiency x the energy charged, and nothing is discharged before the
\* first charge.
EnergyAccounting ==
  (ValidConfig /\ Running) =>
    /\ PctExact(Charged(i), eff)
    /\ soc = TimesPct(Charged(i), eff) - Discharged(i)
    /\ Discharged(i) <= TimesPct(Charged(i), eff)
    /\ Charged(i) = 0 => Discharged(i) = 0

\* A finished run with charging losses, a shaving discharge and an
\* arbitrage discharge.
LossyCycle ==
  /\ ValidConfig /\ pc = "done" /\ eff < 100
  /\ Charged(Hours) > 0
  /\ \E k \in 1..Hours : sim_data.Load[k] > threshold /\ batt_actions[k] > 0
  /\ \E k \in 1..Hours : sim_data.Load[k] <= threshold /\ batt_actions[k] > 0

\* ------------------------------------------------------------ C3
\* C3: total annual savings is the sum of the demand and the energy
\* savings; when it is <= 0 the payback is the sentinel 99 and nothing is
\* divided; when it is > 0 the payback is CAPEX / total annual savings.
PaybackGuarded ==
  pc = "done" =>
    /\ total_annual_savings
         = WPlus(annual_demand_savings, annual_elec_savings)
    /\ ~WPositive(total_annual_savings) =>
         /\ ~payback.div
         /\ payback.num = WOf(PaybackSentinel) /\ payback.den = WOf(1)
    /\ WPositive(total_annual_savings) =>
         /\ payback.div
         /\ payback.num = capex /\ payback.den = total_annual_savings
    /\ payback.div => WPositive(payback.den)

\* A finished run of a valid configuration that cycled the battery and
\* lost money.
NegativeSavings ==
  /\ ValidConfig /\ pc = "done"
  /\ Charged(Hours) > 0 /\ Discharged(Hours) > 0
  /\ total_annual_savings[1] < 0
  /\ ~payback.div

\* Finished runs of a valid configuration with no savings at all, and with
\* positive savings.
ZeroSavings ==
  pc = "done" /\ ValidConfig /\ total_annual_savings = WZero

PositiveSavings ==
  pc = "done" /\ ValidConfig /\ WPositive(total_annual_savings)

\* ------------------------------------------------------------ C6
\* The basic scenario: 200 kWh, 100 kW, efficiency 0.9, DOD 0.9, prices
\* 1.2 / 0.7 / 0.3, and no hour above the threshold.
BasicScenario ==
  /\ Running
  /\ batt_capacity = kW(200) /\ batt_power = kW(100)
  /\ eff = 90 /\ dod = 90
  /\ price_peak = 12 /\ price_flat = 7 /\ price_valley = 3
  /\ NoShaving

\* C6 as stated: in the basic scenario the soc is the full usable
\* capacity, 180 kWh, from the end of the valley window to the first peak
\* hour, and the peak-hour discharges bring it back to 0.
FullByEndOfValley ==
  BasicScenario =>
    /\ usable_cap = kW(180)
    /\ (ValleyEnd <= i /\ i <= PeakOneStart) => soc = usable_cap
    /\ i >= PeakOneEnd => soc = 0

\* C6 as amended: in the basic scenario the soc from the end of the valley
\* window to the first peak hour is below the usable capacity of 180 kWh
\* by less than 0.00001 kWh and never equal to it; the discharges of hours
\* 12 and 13 bring it back to 0, where it stays.
NearlyFullByEndOfValley ==
  BasicScenario =>
    /\ usable_cap = kW(180)
    /\ (ValleyEnd <= i /\ i <= PeakOneStart) =>
         /\ soc < usable_cap
         /\ usable_cap - soc < 10
    /\ i >= PeakOneEnd => soc = 0

\* The basic scenario, finished: nearly full after hour 7, empty at the
\* end.
BasicScenarioDone ==
  /\ BasicScenario /\ pc = "done"
  /\ soc_log[ValleyEnd] = kW(180) - 9
  /\ batt_actions[PeakOneStart + 1] = kW(100)
  /\ soc = 0

\* ------------------------------------------------------------ C8
\* C8: for all non-negative prices, equal or not, a flat-tier hour (8-11,
\* 14-17, 22-23) with load <= threshold has battery power 0 and leaves
\* soc unchanged; the battery charges only in valley-tier hours and
\* discharges for arbitrage only in peak-tier hours.
FlatTierIdle ==
  (ValidConfig /\ Running
     /\ price_peak >= 0 /\ price_flat >= 0 /\ price_valley >= 0) =>
    \A k \in 1..i :
      /\ (TierOf(k - 1) = "flat" /\ sim_data.Load[k] <= threshold) =>
           /\ batt_actions[k] = 0
           /\ soc_log[k] = SocBefore(k)
      /\ batt_actions[k] < 0 => TierOf(k - 1) = "valley"
      /\ (sim_data.Load[k] <= threshold /\ batt_actions[k] > 0) =>
           TierOf(k - 1) = "peak"

\* ------------------------------------------------------------ C9
\* The basic arbitrage-only engine: valley tier charges
\* min(ratedPower, usable - soc) and stores charge x efficiency, peak tier
\* discharges min(ratedPower, soc), flat tier idles.
BasicStep(h, charge) ==
  IF TierOf(h) = "valley"
    THEN LET amount == Min2(batt_power, usable_cap - charge)
         IN [power |-> -amount, soc |-> charge + TimesPct(amount, eff)]
  ELSE IF TierOf(h) = "peak"
    THEN LET amount == Min2(batt_power, charge)
         IN [power |-> amount, soc |-> charge - amount]
  ELSE [power |-> 0, soc |-> charge]

RECURSIVE BasicRun(_)
BasicRun(n) ==
  IF n = 0 THEN [actions |-> <<>>, socs |-> <<>>, soc |-> 0]
  ELSE LET prev == BasicRun(n - 1)
           step == BasicStep(n - 1, prev.soc)
       IN [actions |-> Append(prev.actions, step.power),
           socs |-> Append(prev.socs, step.soc),
           soc |-> step.soc]

\* C9: with threshold >= max(load) no hour is shaved, and the trace of
\* battery power, soc and grid draw is, hour by hour, the trace of the
\* basic arbitrage-only engine on the same inputs.
ReducesToBasic ==
  (ValidConfig /\ Running /\ threshold >= original_max_demand) =>
    /\ NoShaving
    /\ batt_actions = BasicRun(i).actions
    /\ soc_log = BasicRun(i).socs
    /\ pc = "done" =>
         sim_data.Grid_kW
           = [k \in 1..Hours |->
                sim_data.Load[k] - BasicRun(Hours).actions[k]]

\* The same, for tariffs whose three prices differ.
ReducesToBasicDistinct ==
  (price_peak # price_flat /\ price_flat # price_valley
     /\ price_peak # price_valley) => ReducesToBasic

\* ------------------------------------------------------------ C2
\* C2: in a finished run with threshold < original max load, if at the
\* hour of maximum load soc and rated power are both at least
\* load - threshold, then new_max_demand <= threshold and
\* demand_reduction = original_max_demand - new_max_demand > 0.
PeakShavedBelowThreshold ==
  (/\ ValidConfig /\ pc = "done"
   /\ threshold < original_max_demand
   /\ \A k \in 1..Hours :
        sim_data.Load[k] = original_max_demand =>
          /\ SocBefore(k) >= sim_data.Load[k] - threshold
          /\ batt_power >= sim_data.Load[k] - threshold) =>
    /\ new_max_demand = SeqMax(sim_data.Grid_kW)
    /\ new_max_demand <= threshold
    /\ demand_reduction = original_max_demand - new_max_demand
    /\ demand_reduction > 0

\* ------------------------------------------------------------ C4
\* C4: with non-positive capacity or rated power, or efficiency or DOD
\* outside (0, 1], no hourly dispatch step ever executes.
InvalidConfigNeverDispatched ==
  ~ValidConfig =>
    /\ i = 0 /\ batt_actions = <<>>
    /\ pc \notin {"finance", "done"}

\* ------------------------------------------------------------ C5
\* C5: whatever is uploaded, the dispatch engine is handed a load curve of
\* exactly 24 values (longer series truncated, shorter ones padded,
\* malformed input replaced by the default curve with a warning), and the
\* run never fails because of the data.
LoadCurveHasAllHours ==
  pc # "load_data" =>
    /\ Len(load_curve) = Hours
    /\ pc # "failed"
    /\ uploaded_file.kind = "malformed" =>
         load_curve = FallbackCurve /\ data_warning
    /\ (uploaded_file.kind = "csv" /\ Len(uploaded_file.rows) >= Hours) =>
         load_curve = SubSeq(uploaded_file.rows, 1, Hours)

====
